---- MODULE Spec2Model ----
(***************************************************************************)
(* Black-Scholes kernel of options-visualization (src/wasm).               *)
(* Reals are modelled as fixed-point integers: the integer n stands for    *)
(* n / Unit.  Every arithmetic operation rounds its exact result to the    *)
(* nearest grid point, ties to even, as IEEE-754 double arithmetic does on *)
(* its own (much finer) grid.                                              *)
(***************************************************************************)
EXTENDS Integers, Sequences, FiniteSets, TLC

VARIABLES
    results,    \* static double results[6] of calculateGreeks
    last        \* the most recent call: function, arguments, what it returned
                \* (for calculateGreeks: the buffer read through the returned
                \* pointer at return) and the T values it passed to d1

vars == << results, last >>

\* ------------------------------------------------------------------------
\* Fixed-point arithmetic (the C double operators and the libm calls)
\* ------------------------------------------------------------------------
Base == 1000
Unit == Base * Base

Abs(x) == IF x < 0 THEN -x ELSE x
Sgn(x) == IF x < 0 THEN -1 ELSE 1

\* q + rem/d with 0 <= rem < d, rounded to nearest, ties to even
RoundEven(q, rem, d) ==
    IF 2 * rem > d \/ (2 * rem = d /\ q % 2 = 1) THEN q + 1 ELSE q

\* the largest magnitude a product takes; larger ones saturate here
Huge == Base * Unit

\* a * b for a, b >= 0, split in base-1000 limbs to stay within 32 bits
MulAbs(a, b) ==
    LET ah == a \div Base
        al == a % Base
        bh == b \div Base
        bl == b % Base
        mid == ah * bl + al * bh
        r0 == (mid % Base) * Base + al * bl
    IN IF ah > 0 /\ bh > Huge \div ah THEN Huge
       ELSE RoundEven(ah * bh + mid \div Base + r0 \div Unit, r0 % Unit, Unit)

\* the C operator a * b on doubles
Mul(a, b) == Sgn(a) * Sgn(b) * MulAbs(Abs(a), Abs(b))

RECURSIVE DivDigits(_, _, _, _)
DivDigits(r, b, n, acc) ==
    IF n = 0 THEN RoundEven(acc, r, b)
    ELSE DivDigits((r * 10) % b, b, n - 1, acc * 10 + (r * 10) \div b)

DivAbs(a, b) ==
    IF b % Unit = 0
    THEN RoundEven(a \div (b \div Unit), a % (b \div Unit), b \div Unit)
    ELSE DivDigits(a % b, b, 6, a \div b)

\* the C operator a / b on doubles (b # 0)
Div(a, b) == Sgn(a) * Sgn(b) * DivAbs(Abs(a), Abs(b))

\* fmax of math.h
fmax(a, b) == IF a > b THEN a ELSE b

RECURSIVE SqrtIter(_, _)
SqrtIter(x, s) ==
    LET s2 == (s + Div(x, s)) \div 2
    IN IF s2 >= s THEN s ELSE SqrtIter(x, s2)

\* sqrt of math.h (x >= 0), by Newton's iteration from above
sqrt(x) == IF x = 0 THEN 0 ELSE SqrtIter(x, IF x > Unit THEN x ELSE Unit)

RECURSIVE ExpSum(_, _, _, _)
ExpSum(f, term, k, acc) ==
    IF term = 0 THEN acc
    ELSE ExpSum(f, Div(Mul(term, f), k * Unit), k + 1, acc + term)

\* exp(f) for |f| < 1 by its Taylor series
ExpSeries(f) == ExpSum(f, Unit, 1, 0)

InvE == ExpSeries(-Unit)
EulerE == ExpSeries(Unit)

RECURSIVE Pow(_, _)
Pow(b, n) == IF n = 0 THEN Unit ELSE Mul(b, Pow(b, n - 1))

\* exp of math.h: exp(x) = e^n * exp(f) with n the integer part of x
exp(x) ==
    IF x >= 0
    THEN Mul(Pow(EulerE, x \div Unit), ExpSeries(x % Unit))
    ELSE IF (-x) \div Unit > 20 THEN 0
    ELSE Mul(Pow(InvE, (-x) \div Unit), ExpSeries(-((-x) % Unit)))

RECURSIVE LnSum(_, _, _, _)
LnSum(u2, pw, k, acc) ==
    IF pw = 0 THEN acc
    ELSE LnSum(u2, Mul(pw, u2), k + 2, acc + Div(pw, k * Unit))

\* ln(x) for x in [1/2, 2]: 2 * atanh((x - 1) / (x + 1))
LnSeries(x) ==
    LET u == Div(x - Unit, x + Unit)
    IN 2 * LnSum(Mul(u, u), u, 1, 0)

Ln2 == LnSeries(2 * Unit)

RECURSIVE log(_)
\* log of math.h (x > 0)
log(x) ==
    IF x > 2 * Unit THEN Ln2 + log(x \div 2)
    ELSE IF 2 * x < Unit THEN log(2 * x) - Ln2
    ELSE LnSeries(x)


\* ------------------------------------------------------------------------
\* Literals of the source, on the fixed-point grid
\* ------------------------------------------------------------------------
a1 == 254830
a2 == -284497
a3 == 1421414
a4 == -1453152
a5 == 1061405
p == 327591
M_PI == 3141593
ExpiryT == 100
Half == 500000
Percent == 10000
DaysPerYear == 365

\* ------------------------------------------------------------------------
\* options_calc.c: cnd, npdf, d1, d2
\* ------------------------------------------------------------------------
\* double cnd(double x): sign and |x|, then the polynomial in t = 1/(1 + p*x)
cnd(x) ==
    LET sign == IF x < 0 THEN -Unit ELSE Unit
        ax == IF x < 0 THEN -x ELSE x
        t == Div(Unit, Unit + Mul(p, ax))
        poly == Mul(Mul(Mul(Mul(a5, t) + a4, t) + a3, t) + a2, t) + a1
        y == Unit - Mul(Mul(poly, t), exp(Mul(-ax, ax)))
    IN Mul(Half, Unit + Mul(sign, y))

\* double npdf(double x)
npdf(x) == Div(exp(Mul(Mul(-Half, x), x)), sqrt(Mul(2 * Unit, M_PI)))

\* double d1(S, K, T, r, sigma)
d1(S, K, T, r, sigma) ==
    Div(log(Div(S, K)) + Mul(r + Mul(Mul(Half, sigma), sigma), T),
        Mul(sigma, sqrt(T)))

\* double d2(S, K, T, r, sigma)
d2(S, K, T, r, sigma) == d1(S, K, T, r, sigma) - Mul(sigma, sqrt(T))

\* ------------------------------------------------------------------------
\* options_calc_indv.c: the single-value entry points.  Each returns
\* [ret |-> the double returned, d1T |-> the values of T that the call passed
\* to d1 (directly, or through d2)].
\* ------------------------------------------------------------------------
\* calculateOptionPrice returning S - K (K - S) at expiry, without fmax
calculateOptionPrice_NoFmax(isCall, S, K, T, r, sigma) ==
    IF T <= ExpiryT
    THEN [ret |-> IF isCall # 0 THEN S - K ELSE K - S, d1T |-> {}]
    ELSE LET d1_val == d1(S, K, T, r, sigma)
             d2_val == d2(S, K, T, r, sigma)
         IN [ret |-> IF isCall # 0
                     THEN Mul(S, cnd(d1_val))
                            - Mul(Mul(K, exp(Mul(-r, T))), cnd(d2_val))
                     ELSE Mul(Mul(K, exp(Mul(-r, T))), cnd(-d2_val))
                            - Mul(S, cnd(-d1_val)),
             d1T |-> {T}]

\* calculateOptionPrice whose put branch passes d1, d2 where -d1, -d2 belong
calculateOptionPrice_PutArgs(isCall, S, K, T, r, sigma) ==
    IF T <= ExpiryT
    THEN [ret |-> IF isCall # 0 THEN fmax(0, S - K) ELSE fmax(0, K - S),
          d1T |-> {}]
    ELSE LET d1_val == d1(S, K, T, r, sigma)
             d2_val == d2(S, K, T, r, sigma)
         IN [ret |-> IF isCall # 0
                     THEN Mul(S, cnd(d1_val))
                            - Mul(Mul(K, exp(Mul(-r, T))), cnd(d2_val))
                     ELSE Mul(Mul(K, exp(Mul(-r, T))), cnd(d2_val))
                            - Mul(S, cnd(d1_val)),
             d1T |-> {T}]

calculateOptionPrice(isCall, S, K, T, r, sigma) ==
    IF T <= ExpiryT
    THEN [ret |-> IF isCall # 0 THEN fmax(0, S - K) ELSE fmax(0, K - S),
          d1T |-> {}]
    ELSE LET d1_val == d1(S, K, T, r, sigma)
             d2_val == d2(S, K, T, r, sigma)
         IN [ret |-> IF isCall # 0
                     THEN Mul(S, cnd(d1_val))
                            - Mul(Mul(K, exp(Mul(-r, T))), cnd(d2_val))
                     ELSE Mul(Mul(K, exp(Mul(-r, T))), cnd(-d2_val))
                            - Mul(S, cnd(-d1_val)),
             d1T |-> {T}]

\* calculateDelta with S >= K and S <= K at expiry
calculateDelta_TieInclusive(isCall, S, K, T, r, sigma) ==
    IF T <= ExpiryT
    THEN [ret |-> IF isCall # 0
                  THEN (IF S >= K THEN Unit ELSE 0)
                  ELSE (IF S <= K THEN -Unit ELSE 0),
          d1T |-> {}]
    ELSE LET d1_val == d1(S, K, T, r, sigma)
         IN [ret |-> IF isCall # 0 THEN cnd(d1_val) ELSE cnd(d1_val) - Unit,
             d1T |-> {T}]

\* calculateDelta whose put branch returns 1.0 - cnd(d1)
calculateDelta_PutSign(isCall, S, K, T, r, sigma) ==
    IF T <= ExpiryT
    THEN [ret |-> IF isCall # 0
                  THEN (IF S > K THEN Unit ELSE 0)
                  ELSE (IF S < K THEN -Unit ELSE 0),
          d1T |-> {}]
    ELSE LET d1_val == d1(S, K, T, r, sigma)
         IN [ret |-> IF isCall # 0 THEN cnd(d1_val) ELSE Unit - cnd(d1_val),
             d1T |-> {T}]

calculateDelta(isCall, S, K, T, r, sigma) ==
    IF T <= ExpiryT
    THEN [ret |-> IF isCall # 0
                  THEN (IF S > K THEN Unit ELSE 0)
                  ELSE (IF S < K THEN -Unit ELSE 0),
          d1T |-> {}]
    ELSE LET d1_val == d1(S, K, T, r, sigma)
         IN [ret |-> IF isCall # 0 THEN cnd(d1_val) ELSE cnd(d1_val) - Unit,
             d1T |-> {T}]

calculateGamma(S, K, T, r, sigma) ==
    IF T <= ExpiryT
    THEN [ret |-> 0, d1T |-> {}]
    ELSE LET d1_val == d1(S, K, T, r, sigma)
         IN [ret |-> Div(npdf(d1_val), Mul(Mul(S, sigma), sqrt(T))),
             d1T |-> {T}]

calculateTheta(isCall, S, K, T, r, sigma) ==
    IF T <= ExpiryT
    THEN [ret |-> 0, d1T |-> {}]
    ELSE LET d1_val == d1(S, K, T, r, sigma)
             d2_val == d2(S, K, T, r, sigma)
             common == Div(-Mul(Mul(S, sigma), npdf(d1_val)),
                           Mul(2 * Unit, sqrt(T)))
         IN [ret |-> IF isCall # 0
                     THEN common
                            - Mul(Mul(Mul(r, K), exp(Mul(-r, T))), cnd(d2_val))
                     ELSE common
                            + Mul(Mul(Mul(r, K), exp(Mul(-r, T))), cnd(-d2_val)),
             d1T |-> {T}]

\* calculateVega with T < 0.0001 for T <= 0.0001
calculateVega_StrictThreshold(S, K, T, r, sigma) ==
    IF T < ExpiryT
    THEN [ret |-> 0, d1T |-> {}]
    ELSE LET d1_val == d1(S, K, T, r, sigma)
         IN [ret |-> Mul(Mul(Mul(Percent, S), sqrt(T)), npdf(d1_val)),
             d1T |-> {T}]

calculateVega(S, K, T, r, sigma) ==
    IF T <= ExpiryT
    THEN [ret |-> 0, d1T |-> {}]
    ELSE LET d1_val == d1(S, K, T, r, sigma)
         IN [ret |-> Mul(Mul(Mul(Percent, S), sqrt(T)), npdf(d1_val)),
             d1T |-> {T}]

\* calculateRho with T < 0.0001 for T <= 0.0001
calculateRho_StrictThreshold(isCall, S, K, T, r, sigma) ==
    IF T < ExpiryT
    THEN [ret |-> 0, d1T |-> {}]
    ELSE LET d2_val == d2(S, K, T, r, sigma)
         IN [ret |-> IF isCall # 0
                     THEN Mul(Mul(Mul(Mul(Percent, K), T), exp(Mul(-r, T))),
                              cnd(d2_val))
                     ELSE Mul(Mul(Mul(Mul(-Percent, K), T), exp(Mul(-r, T))),
                              cnd(-d2_val)),
             d1T |-> {T}]

calculateRho(isCall, S, K, T, r, sigma) ==
    IF T <= ExpiryT
    THEN [ret |-> 0, d1T |-> {}]
    ELSE LET d2_val == d2(S, K, T, r, sigma)
         IN [ret |-> IF isCall # 0
                     THEN Mul(Mul(Mul(Mul(Percent, K), T), exp(Mul(-r, T))),
                              cnd(d2_val))
                     ELSE Mul(Mul(Mul(Mul(-Percent, K), T), exp(Mul(-r, T))),
                              cnd(-d2_val)),
             d1T |-> {T}]

\* ------------------------------------------------------------------------
\* options_calc.c: calculateGreeks and its static buffer.  Positions 1..6 of
\* a buffer are results[0]..results[5] of the source.
\* ------------------------------------------------------------------------
\* the expiry branch, lines 50-60
GreeksAtExpiry(isCall, S, K) ==
    << IF isCall # 0 THEN fmax(0, S - K) ELSE fmax(0, K - S),
       IF isCall # 0
       THEN (IF S > K THEN Unit ELSE 0)
       ELSE (IF S < K THEN -Unit ELSE 0),
       0, 0, 0, 0 >>

\* the normal branch, lines 64-85
GreeksNormal(isCall, S, K, T, r, sigma) ==
    LET d1_val == d1(S, K, T, r, sigma)
        d2_val == d2(S, K, T, r, sigma)
        nd1 == npdf(d1_val)
        gamma == Div(nd1, Mul(Mul(S, sigma), sqrt(T)))
        vega == Mul(Mul(Mul(Percent, S), sqrt(T)), nd1)
        price == IF isCall # 0
                 THEN Mul(S, cnd(d1_val))
                        - Mul(Mul(K, exp(Mul(-r, T))), cnd(d2_val))
                 ELSE Mul(Mul(K, exp(Mul(-r, T))), cnd(-d2_val))
                        - Mul(S, cnd(-d1_val))
        delta == IF isCall # 0 THEN cnd(d1_val) ELSE cnd(d1_val) - Unit
        theta == IF isCall # 0
                 THEN Div(-Mul(Mul(S, sigma), nd1), Mul(2 * Unit, sqrt(T)))
                        - Mul(Mul(Mul(r, K), exp(Mul(-r, T))), cnd(d2_val))
                 ELSE Div(-Mul(Mul(S, sigma), nd1), Mul(2 * Unit, sqrt(T)))
                        + Mul(Mul(Mul(r, K), exp(Mul(-r, T))), cnd(-d2_val))
        rho == IF isCall # 0
               THEN Mul(Mul(Mul(Mul(Percent, K), T), exp(Mul(-r, T))),
                        cnd(d2_val))
               ELSE Mul(Mul(Mul(Mul(-Percent, K), T), exp(Mul(-r, T))),
                        cnd(-d2_val))
    IN << price, delta, gamma, Div(theta, DaysPerYear * Unit), vega, rho >>

\* calculateGreeks computing gamma inside the isCall branches, negated for a put
calculateGreeks_PutGamma(isCall, S, K, T, r, sigma) ==
    IF T <= ExpiryT
    THEN [buf |-> GreeksAtExpiry(isCall, S, K), d1T |-> {}]
    ELSE LET g == GreeksNormal(isCall, S, K, T, r, sigma)
         IN [buf |-> << g[1], g[2], IF isCall # 0 THEN g[3] ELSE -g[3],
                        g[4], g[5], g[6] >>,
             d1T |-> {T}]

\* double* calculateGreeks(...): [buf |-> the static buffer after the call,
\* d1T |-> the values of T passed to d1]; every position is overwritten
calculateGreeks(isCall, S, K, T, r, sigma) ==
    IF T <= ExpiryT
    THEN [buf |-> GreeksAtExpiry(isCall, S, K), d1T |-> {}]
    ELSE [buf |-> GreeksNormal(isCall, S, K, T, r, sigma), d1T |-> {T}]

\* ------------------------------------------------------------------------
\* The host: it calls the functions one after the other (one call runs to
\* completion before the next starts)
\* ------------------------------------------------------------------------
MaxSIdx == 2
MaxXIdx == 4

Strike == 100 * Unit
SGrid == { Strike + (i - 1) * 10 * Unit : i \in 0..MaxSIdx }
TGrid == { 0, ExpiryT, Unit \div 4, Unit }
RGrid == { -(Unit \div 20), 0, Unit \div 20 }
SigmaGrid == { Unit \div 5 }
XGrid == { i * Half : i \in (-MaxXIdx)..MaxXIdx }

Inputs5 == [S : SGrid, K : {Strike}, T : TGrid, r : RGrid, sigma : SigmaGrid]
Inputs6 == [isCall : {0, 1}, S : SGrid, K : {Strike}, T : TGrid, r : RGrid,
            sigma : SigmaGrid]

Init ==
    /\ results = << 0, 0, 0, 0, 0, 0 >>
    /\ last = [fn |-> "none", args |-> << >>, ret |-> << >>, d1T |-> {}]

\* The functions, tabulated over the host's inputs.  (f @@ << >> is f: it
\* makes TLC tabulate f once instead of evaluating it at every step.)
GreeksOf == [in \in Inputs6 |->
    calculateGreeks(in.isCall, in.S, in.K, in.T, in.r, in.sigma)] @@ << >>
OptionPriceOf == [in \in Inputs6 |->
    calculateOptionPrice(in.isCall, in.S, in.K, in.T, in.r, in.sigma)] @@ << >>
DeltaOf == [in \in Inputs6 |->
    calculateDelta(in.isCall, in.S, in.K, in.T, in.r, in.sigma)] @@ << >>
GammaOf == [in \in Inputs5 |->
    calculateGamma(in.S, in.K, in.T, in.r, in.sigma)] @@ << >>
ThetaOf == [in \in Inputs6 |->
    calculateTheta(in.isCall, in.S, in.K, in.T, in.r, in.sigma)] @@ << >>
VegaOf == [in \in Inputs5 |->
    calculateVega(in.S, in.K, in.T, in.r, in.sigma)] @@ << >>
RhoOf == [in \in Inputs6 |->
    calculateRho(in.isCall, in.S, in.K, in.T, in.r, in.sigma)] @@ << >>
CndOf == [x \in XGrid |-> cnd(x)] @@ << >>

Returned(f, in, out) ==
    last' = [fn |-> f, args |-> in, ret |-> << out.ret >>, d1T |-> out.d1T]

CallGreeks ==
    \E in \in Inputs6 :
        /\ results' = GreeksOf[in].buf
        /\ last' = [fn |-> "calculateGreeks", args |-> in,
                    ret |-> GreeksOf[in].buf, d1T |-> GreeksOf[in].d1T]

CallOptionPrice ==
    \E in \in Inputs6 :
        /\ Returned("calculateOptionPrice", in, OptionPriceOf[in])
        /\ UNCHANGED results

CallDelta ==
    \E in \in Inputs6 :
        /\ Returned("calculateDelta", in, DeltaOf[in])
        /\ UNCHANGED results

CallGamma ==
    \E in \in Inputs5 :
        /\ Returned("calculateGamma", in, GammaOf[in])
        /\ UNCHANGED results

CallTheta ==
    \E in \in Inputs6 :
        /\ Returned("calculateTheta", in, ThetaOf[in])
        /\ UNCHANGED results

CallVega ==
    \E in \in Inputs5 :
        /\ Returned("calculateVega", in, VegaOf[in])
        /\ UNCHANGED results

CallRho ==
    \E in \in Inputs6 :
        /\ Returned("calculateRho", in, RhoOf[in])
        /\ UNCHANGED results

CallCnd ==
    \E x \in XGrid :
        /\ last' = [fn |-> "cnd", args |-> [x |-> x], ret |-> << CndOf[x] >>,
                    d1T |-> {}]
        /\ UNCHANGED results

Next ==
    \/ CallGreeks
    \/ CallOptionPrice
    \/ CallDelta
    \/ CallGamma
    \/ CallTheta
    \/ CallVega
    \/ CallRho
    \/ CallCnd

Spec == Init /\ [][Next]_vars

\* ------------------------------------------------------------------------
\* Properties
\* ------------------------------------------------------------------------
Batch == last.fn = "calculateGreeks"
Called(f) == last.fn = f
AtExpiry == last.args.T <= ExpiryT
TakesInputs ==
    last.fn \in { "calculateGreeks", "calculateOptionPrice", "calculateDelta",
                  "calculateGamma", "calculateTheta", "calculateVega",
                  "calculateRho" }

ParityTol == Unit \div 10000
CdfTol == Unit \div 100000

\* C1: the six values of calculateGreeks are what calculateOptionPrice,
\* calculateDelta, calculateGamma, calculateTheta, calculateVega and
\* calculateRho return for the same inputs, on both sides of the threshold.
C1_BatchAgreesWithIndividual ==
    Batch =>
        LET a == last.args
            in5 == [S |-> a.S, K |-> a.K, T |-> a.T, r |-> a.r,
                    sigma |-> a.sigma]
        IN last.ret = << OptionPriceOf[a].ret, DeltaOf[a].ret, GammaOf[in5].ret,
                         ThetaOf[a].ret, VegaOf[in5].ret, RhoOf[a].ret >>

\* C2: the values a caller obtained through the pointer calculateGreeks
\* returned are still there after any other call has run.
C2_CallsIndependent == [][Batch => results' = last.ret]_vars

\* the price the function of the last call gives for the other option type
OtherPrice ==
    LET a == last.args
        b == [a EXCEPT !.isCall = 1 - a.isCall]
    IN IF Batch THEN GreeksOf[b].buf[1] ELSE OptionPriceOf[b].ret

CallPrice == IF last.args.isCall # 0 THEN last.ret[1] ELSE OtherPrice
PutPrice == IF last.args.isCall # 0 THEN OtherPrice ELSE last.ret[1]
Forward ==
    last.args.S - Mul(last.args.K, exp(Mul(-last.args.r, last.args.T)))

\* C3 (as stated): call price - put price = S - K*exp(-r*T) within 1e-4 for
\* all inputs, T at or below the expiry threshold included.
C3_PutCallParity ==
    (Batch \/ Called("calculateOptionPrice")) =>
        Abs(CallPrice - PutPrice - Forward) <= ParityTol

\* C3 (amended): above the expiry threshold call price - put price =
\* S - K*exp(-r*T) within 1e-4; at or below it call price - put price = S - K.
C3_PutCallParityAboveThreshold ==
    (Batch \/ Called("calculateOptionPrice")) =>
        IF AtExpiry
        THEN CallPrice - PutPrice = last.args.S - last.args.K
        ELSE Abs(CallPrice - PutPrice - Forward) <= ParityTol

C3_Witness ==
    /\ Called("calculateOptionPrice")
    /\ ~AtExpiry
    /\ last.args.isCall = 0
    /\ last.args.r # 0
    /\ last.ret[1] > 0
    /\ Forward # last.args.S - last.args.K

\* the fit as section 4.1 of the specification gives it: z = |x| / sqrt(2)
SpecifiedCnd(x) ==
    LET sign == IF x < 0 THEN -Unit ELSE Unit
        z == Div(Abs(x), sqrt(2 * Unit))
        t == Div(Unit, Unit + Mul(p, z))
        poly == Mul(Mul(Mul(Mul(a5, t) + a4, t) + a3, t) + a2, t) + a1
        erf_approx == Unit - Mul(Mul(poly, t), exp(Mul(-z, z)))
    IN Mul(Half, Unit + Mul(sign, erf_approx))

\* C4: cnd(x) evaluates the fit at z = |x| / sqrt(2) and returns
\* 0.5 * (1 + sign * erf_approx), the standard normal CDF.
C4_CndIsSpecifiedFit ==
    Called("cnd") => Abs(last.ret[1] - SpecifiedCnd(last.args.x)) <= CdfTol

Intrinsic ==
    IF last.args.isCall # 0
    THEN (IF last.args.S > last.args.K THEN last.args.S - last.args.K ELSE 0)
    ELSE (IF last.args.K > last.args.S THEN last.args.K - last.args.S ELSE 0)

\* C5: at or below the expiry threshold the price of calculateGreeks and of
\* calculateOptionPrice is the intrinsic value, and never negative.
C5_ExpiryPriceIntrinsic ==
    ((Batch \/ Called("calculateOptionPrice")) /\ AtExpiry) =>
        /\ last.ret[1] = Intrinsic
        /\ last.ret[1] >= 0

C5_Witness ==
    /\ Called("calculateOptionPrice")
    /\ last.args.T = ExpiryT
    /\ last.args.isCall # 0
    /\ last.args.S < last.args.K
    /\ last.ret[1] = 0

LastDelta == IF Batch THEN last.ret[2] ELSE last.ret[1]

\* C6: at or below the expiry threshold the delta of calculateGreeks and of
\* calculateDelta is 1 if S > K else 0 for a call, -1 if S < K else 0 for a
\* put, so 0 at S = K.
C6_ExpiryDeltaIndicator ==
    ((Batch \/ Called("calculateDelta")) /\ AtExpiry) =>
        /\ LastDelta =
             IF last.args.isCall # 0
             THEN (IF last.args.S > last.args.K THEN Unit ELSE 0)
             ELSE (IF last.args.S < last.args.K THEN -Unit ELSE 0)
        /\ last.args.S = last.args.K => LastDelta = 0

C6_Witness ==
    /\ Called("calculateDelta")
    /\ AtExpiry
    /\ last.args.S = last.args.K
    /\ last.ret[1] = 0

\* C7: at or below the expiry threshold gamma, theta, vega and rho are 0:
\* positions 2..5 of calculateGreeks, and the four single-value functions.
C7_ExpiryGreeksZero ==
    /\ (Batch /\ AtExpiry) =>
           /\ last.ret[3] = 0
           /\ last.ret[4] = 0
           /\ last.ret[5] = 0
           /\ last.ret[6] = 0
    /\ (/\ last.fn \in { "calculateGamma", "calculateTheta", "calculateVega",
                         "calculateRho" }
        /\ AtExpiry) => last.ret[1] = 0

C7_Witness ==
    /\ Called("calculateRho")
    /\ last.args.T = ExpiryT
    /\ last.args.r # 0
    /\ last.ret[1] = 0

\* C8: calculateGreeks returns the same gamma and the same vega for a call
\* and for a put with the same S, K, T, r, sigma, in both branches;
\* calculateGamma and calculateVega take no isCall.
C8_GammaVegaTypeIndependent ==
    /\ Batch =>
           LET a == last.args
               other == GreeksOf[[a EXCEPT !.isCall = 1 - a.isCall]].buf
           IN /\ last.ret[3] = other[3]
              /\ last.ret[5] = other[5]
    /\ (Called("calculateGamma") \/ Called("calculateVega")) =>
           DOMAIN last.args = { "S", "K", "T", "r", "sigma" }

C8_Witness ==
    /\ Batch
    /\ ~AtExpiry
    /\ last.args.isCall = 0
    /\ last.ret[3] > 0
    /\ last.ret[5] > 0

\* C9: the delta of calculateGreeks and of calculateDelta lies in [0, 1] for
\* a call and in [-1, 0] for a put, in both branches.
C9_DeltaBounds ==
    (Batch \/ Called("calculateDelta")) =>
        IF last.args.isCall # 0
        THEN 0 <= LastDelta /\ LastDelta <= Unit
        ELSE -Unit <= LastDelta /\ LastDelta <= 0

C9_Witness ==
    /\ Called("calculateDelta")
    /\ ~AtExpiry
    /\ last.args.isCall = 0
    /\ -Unit < last.ret[1]
    /\ last.ret[1] < 0

\* C10: no entry point evaluates d1 (or d2) with T at or below the expiry
\* threshold: the division by sigma*sqrt(T) is reached only with T above it.
C10_D1OnlyAboveThreshold ==
    TakesInputs =>
        /\ \A t \in last.d1T : t > ExpiryT
        /\ AtExpiry => last.d1T = {}

C10_Witness ==
    /\ Called("calculateVega")
    /\ last.args.T = ExpiryT
    /\ last.d1T = {}

====
